---- MODULE Spec2Model ----
(***************************************************************************)
(* Model of tvm/ir/json_compact.py: upgrade_json and the per-version       *)
(* updaters built by create_updater.                                       *)
(*                                                                         *)
(* A JSON object (python dict) is a function from its present keys to      *)
(* their values; a JSON array (python list) is a sequence, indexed from 0  *)
(* in the code and therefore read through At / PyIndex below.  A version   *)
(* string is a sequence of characters so that str.startswith is computed.  *)
(* Attribute values are strings; an index into the node table is the       *)
(* decimal string of the index, as in the serialized format.               *)
(***************************************************************************)
EXTENDS Integers, Sequences, FiniteSets, TLC

VARIABLES json_str, pc, version, nodes, root, chain, idx, err, output,
          log, startLen, visited, touched, peer, encoder, dz

vars == <<json_str, pc, version, nodes, root, chain, idx, err, output,
          log, startLen, visited, touched, peer, encoder, dz>>

(* ---------------------------- bounds ---------------------------------- *)

MaxNodes == 3

(* ------------------------- python primitives -------------------------- *)

StartsWith(s, p) == Len(s) >= Len(p) /\ SubSeq(s, 1, Len(p)) = p

At(list, i) == list[i + 1]

SetAt(list, i, v) == [list EXCEPT ![i + 1] = v]

PyIndexOk(list, i) == i >= -Len(list) /\ i < Len(list)

PyIndex(list, i) == IF i < 0 THEN Len(list) + i ELSE i

DelKey(d, k) == [j \in DOMAIN d \ {k} |-> d[j]]

SetKey(d, k, v) == (k :> v) @@ d

IntStrings == -(2 * MaxNodes + 8) .. (2 * MaxNodes + 8)

FormatInt(i) == ToString(i)

IsIntString(s) == \E i \in IntStrings : ToString(i) = s

ParseInt(s) == CHOOSE i \in IntStrings : ToString(i) = s

EmptyDict == [k \in {} |-> ""]

Dumps(d) == [json |-> d]

Loads(s) == s.json

(* ------------------------- version strings ---------------------------- *)

V03 == <<"0", ".", "3">>
V06 == <<"0", ".", "6">>
V061 == <<"0", ".", "6", ".", "1">>
V07 == <<"0", ".", "7">>
V08 == <<"0", ".", "8">>
V09 == <<"0", ".", "9">>

(* ------------------- value-encoding collaborator ---------------------- *)

(* the tag of the node tvm.ir.save_json gives for a tvm.runtime.String *)
StringEncoder == "runtime.String"

(* The encoder is a collaborator outside this file: a fragment of a null  *)
(* node and a root node at index 1.  The root is the runtime.String node  *)
(* holding the value in repr_str, or, for an encoder that answers in      *)
(* another format, a node of that tag holding the value in name_hint.     *)
SaveJsonString(str_val) ==
    [root |-> 1,
     nodes |-> << [type_key |-> ""],
                  IF encoder = StringEncoder
                  THEN [type_key |-> "runtime.String", repr_str |-> str_val]
                  ELSE [type_key |-> encoder, attrs |-> ("name_hint" :> str_val)] >>]

(* ------------------------------ rules --------------------------------- *)
(* A rule takes the table and the index of the visited node (item is the  *)
(* dict stored at that index, mutated in place) and yields the table      *)
(* after the rule, or the exception it raises.                            *)

Ok(ns) == [nodes |-> ns, err |-> "", tomb |-> {}]

Raise(ns, e) == [nodes |-> ns, err |-> e, tomb |-> {}]

StripRelay ==
    "relay.TypeVar" :> "TypeVar" @@ "relay.GlobalTypeVar" :> "GlobalTypeVar"

(* variant of _initialize_virtual_device: the key is always written *)
_initialize_virtual_device_overwrite(ns, i) ==
    LET item == At(ns, i) IN
    IF "attrs" \notin DOMAIN item THEN Raise(ns, "KeyError")
    ELSE Ok(SetAt(ns, i, [item EXCEPT !.attrs = SetKey(@, "virtual_device_", "0")]))

_initialize_virtual_device(ns, i) ==
    LET item == At(ns, i) IN
    IF "attrs" \notin DOMAIN item THEN Raise(ns, "KeyError")
    ELSE IF "virtual_device_" \notin DOMAIN item.attrs
         THEN Ok(SetAt(ns, i, [item EXCEPT !.attrs = SetKey(@, "virtual_device_", "0")]))
         ELSE Ok(ns)

(* variant of _initialize_module_attributes: line 99, the assert, is missing *)
_initialize_module_attributes_noassert(ns, i) ==
    LET item == At(ns, i) IN
    IF "attrs" \notin DOMAIN item THEN Raise(ns, "KeyError")
    ELSE IF "attrs" \notin DOMAIN item.attrs
         THEN Ok(SetAt(ns, i, [item EXCEPT !.attrs = SetKey(@, "attrs", "0")]))
         ELSE Ok(ns)

_initialize_module_attributes(ns, i) ==
    LET item == At(ns, i) IN
    IF item.type_key # "IRModule" THEN Raise(ns, "AssertionError")
    ELSE IF "attrs" \notin DOMAIN item THEN Raise(ns, "KeyError")
    ELSE IF "attrs" \notin DOMAIN item.attrs
         THEN Ok(SetAt(ns, i, [item EXCEPT !.attrs = SetKey(@, "attrs", "0")]))
         ELSE Ok(ns)

(* variant of _ftype_var: line 122, del item["attrs"]["var"], is missing *)
_ftype_var_keepvar(ns, i) ==
    LET item == At(ns, i) IN
    IF "attrs" \notin DOMAIN item \/ "var" \notin DOMAIN item.attrs
    THEN Raise(ns, "KeyError")
    ELSE IF ~IsIntString(item.attrs.var) THEN Raise(ns, "ValueError")
    ELSE LET vindex == ParseInt(item.attrs.var) IN
    IF ~PyIndexOk(ns, vindex) THEN Raise(ns, "IndexError")
    ELSE LET v == PyIndex(ns, vindex)
             ref == At(ns, v) IN
    IF "attrs" \notin DOMAIN ref \/ "name" \notin DOMAIN ref.attrs
    THEN Raise(ns, "KeyError")
    ELSE LET n1 == SetAt(ns, i, [item EXCEPT !.attrs = SetKey(@, "name_hint", ref.attrs.name)])
             n2 == SetAt(n1, v, [At(n1, v) EXCEPT !.type_key = ""]) IN
    IF At(n2, i).type_key \notin DOMAIN StripRelay
    THEN [nodes |-> n2, err |-> "AssertionError", tomb |-> {v}]
    ELSE [nodes |-> SetAt(n2, i, [At(n2, i) EXCEPT !.type_key = StripRelay[@]]),
          err |-> "", tomb |-> {v}]

_ftype_var(ns, i) ==
    LET item == At(ns, i) IN
    IF "attrs" \notin DOMAIN item \/ "var" \notin DOMAIN item.attrs
    THEN Raise(ns, "KeyError")
    ELSE IF ~IsIntString(item.attrs.var) THEN Raise(ns, "ValueError")
    ELSE LET vindex == ParseInt(item.attrs.var) IN
    IF ~PyIndexOk(ns, vindex) THEN Raise(ns, "IndexError")
    ELSE LET v == PyIndex(ns, vindex)
             ref == At(ns, v) IN
    IF "attrs" \notin DOMAIN ref \/ "name" \notin DOMAIN ref.attrs
    THEN Raise(ns, "KeyError")
    ELSE LET n1 == SetAt(ns, i, [item EXCEPT !.attrs = SetKey(@, "name_hint", ref.attrs.name)])
             n2 == SetAt(n1, v, [At(n1, v) EXCEPT !.type_key = ""])
             n3 == SetAt(n2, i, [At(n2, i) EXCEPT !.attrs = DelKey(@, "var")]) IN
    IF At(n3, i).type_key \notin DOMAIN StripRelay
    THEN [nodes |-> n3, err |-> "AssertionError", tomb |-> {v}]
    ELSE [nodes |-> SetAt(n3, i, [At(n3, i) EXCEPT !.type_key = StripRelay[@]]),
          err |-> "", tomb |-> {v}]

_rename(new_name, ns, i) ==
    Ok(SetAt(ns, i, [At(ns, i) EXCEPT !.type_key = new_name]))

(* variant of _update_tir_var: the type_key is left as it was *)
_update_tir_var_norename(new_name, ns, i) ==
    LET item == At(ns, i) IN
    IF "attrs" \notin DOMAIN item THEN Raise(ns, "KeyError")
    ELSE Ok(SetAt(ns, i, [item EXCEPT !.attrs = SetKey(@, "type_annotation", "0")]))

_update_tir_var(new_name, ns, i) ==
    LET item == [At(ns, i) EXCEPT !.type_key = new_name] IN
    IF "attrs" \notin DOMAIN item THEN Raise(SetAt(ns, i, item), "KeyError")
    ELSE Ok(SetAt(ns, i, [item EXCEPT !.attrs = SetKey(@, "type_annotation", "0")]))

_update_global_key(ns, i) ==
    LET item == At(ns, i) IN
    IF "global_key" \in DOMAIN item
    THEN Ok(SetAt(ns, i, DelKey(SetKey(item, "repr_str", item.global_key), "global_key")))
    ELSE Ok(ns)

(* variants of NextIndex: the index of the last node, a 1-based index *)
NextIndex_last(ns) == Len(ns) - 1

NextIndex_onebased(ns) == Len(ns) + 1

(* line 154: sidx = len(nodes) *)
NextIndex(ns) == Len(ns)

(* variant of ListAppend: nodes.insert(0, val) *)
ListAppend_front(ns, val) == <<val>> \o ns

(* line 155: nodes.append(val) *)
ListAppend(ns, val) == Append(ns, val)

(* variant of _update_from_std_str: a missing attribute is skipped *)
_update_from_std_str_lenient(key, ns, i) ==
    LET item == At(ns, i) IN
    IF "attrs" \notin DOMAIN item \/ key \notin DOMAIN item.attrs
    THEN Ok(ns)
    ELSE LET str_val == item.attrs[key]
             jdata == SaveJsonString(str_val)
             root_idx == jdata.root
             val == At(jdata.nodes, root_idx)
             sidx == NextIndex(ns)
             n1 == ListAppend(ns, val) IN
         Ok(SetAt(n1, i, [item EXCEPT !.attrs = SetKey(@, key, FormatInt(sidx))]))

(* variant of _update_from_std_str: the whole fragment is appended *)
_update_from_std_str_whole(key, ns, i) ==
    LET item == At(ns, i) IN
    IF "attrs" \notin DOMAIN item \/ key \notin DOMAIN item.attrs
    THEN Raise(ns, "KeyError")
    ELSE LET str_val == item.attrs[key]
             jdata == SaveJsonString(str_val)
             root_idx == jdata.root
             sidx == NextIndex(ns) + root_idx
             n1 == ns \o jdata.nodes IN
         Ok(SetAt(n1, i, [item EXCEPT !.attrs = SetKey(@, key, FormatInt(sidx))]))

_update_from_std_str(key, ns, i) ==
    LET item == At(ns, i) IN
    IF "attrs" \notin DOMAIN item \/ key \notin DOMAIN item.attrs
    THEN Raise(ns, "KeyError")
    ELSE LET str_val == item.attrs[key]
             jdata == SaveJsonString(str_val)
             root_idx == jdata.root
             val == At(jdata.nodes, root_idx)
             sidx == NextIndex(ns)
             n1 == ListAppend(ns, val) IN
         Ok(SetAt(n1, i, [item EXCEPT !.attrs = SetKey(@, key, FormatInt(sidx))]))

(* A rule is a record naming the function and its closure argument.       *)

R(kind, arg) == [kind |-> kind, arg |-> arg]

ApplyRule(rule, ns, i) ==
    CASE rule.kind = "_initialize_virtual_device" -> _initialize_virtual_device(ns, i)
      [] rule.kind = "_initialize_module_attributes" -> _initialize_module_attributes(ns, i)
      [] rule.kind = "_ftype_var" -> _ftype_var(ns, i)
      [] rule.kind = "_rename" -> _rename(rule.arg, ns, i)
      [] rule.kind = "_update_tir_var" -> _update_tir_var(rule.arg, ns, i)
      [] rule.kind = "_update_global_key" -> _update_global_key(ns, i)
      [] rule.kind = "_update_from_std_str" -> _update_from_std_str(rule.arg, ns, i)

(* variant of ApplyChain: the list of rules is applied last to first *)
RECURSIVE ApplyChain_reversed(_, _, _, _)
ApplyChain_reversed(f, k, st, i) ==
    IF k > Len(f) \/ st.err # "" THEN st
    ELSE LET r == ApplyRule(f[Len(f) + 1 - k], st.nodes, i) IN
         ApplyChain_reversed(f, k + 1,
                             [nodes |-> r.nodes, err |-> r.err, tomb |-> st.tomb \cup r.tomb], i)

RECURSIVE ApplyChain(_, _, _, _)
ApplyChain(f, k, st, i) ==
    IF k > Len(f) \/ st.err # "" THEN st
    ELSE LET r == ApplyRule(f[k], st.nodes, i) IN
         ApplyChain(f, k + 1, [nodes |-> r.nodes, err |-> r.err, tomb |-> st.tomb \cup r.tomb], i)

(* ---------------------------- rule sets ------------------------------- *)

node_map_06_to_07 ==
    "SourceName" :> <<R("_update_global_key", "")>> @@
    "EnvFunc" :> <<R("_update_global_key", "")>> @@
    "relay.Op" :> <<R("_update_global_key", ""), R("_rename", "Op")>> @@
    "relay.TypeVar" :> <<R("_ftype_var", ""), R("_update_from_std_str", "name_hint")>> @@
    "TypeVar" :> <<R("_update_from_std_str", "name_hint")>> @@
    "relay.Id" :> <<R("_update_from_std_str", "name_hint")>> @@
    "relay.GlobalTypeVar" :> <<R("_ftype_var", ""), R("_update_from_std_str", "name_hint")>> @@
    "GlobalTypeVar" :> <<R("_update_from_std_str", "name_hint")>> @@
    "relay.Type" :> <<R("_rename", "Type")>> @@
    "relay.TupleType" :> <<R("_rename", "TupleType")>> @@
    "relay.TypeConstraint" :> <<R("_rename", "TypeConstraint")>> @@
    "relay.FuncType" :> <<R("_rename", "FuncType")>> @@
    "relay.IncompleteType" :> <<R("_rename", "IncompleteType")>> @@
    "relay.TypeRelation" :> <<R("_rename", "TypeRelation")>> @@
    "relay.TypeCall" :> <<R("_rename", "TypeCall")>> @@
    "relay.Constructor" :> <<R("_update_from_std_str", "name_hint")>> @@
    "relay.Module" :> <<R("_rename", "IRModule")>> @@
    "relay.SourceName" :> <<R("_rename", "SourceName")>> @@
    "relay.Span" :> <<R("_rename", "Span")>> @@
    "relay.GlobalVar" :> <<R("_rename", "GlobalVar"), R("_update_from_std_str", "name_hint")>> @@
    "GlobalVar" :> <<R("_update_from_std_str", "name_hint")>> @@
    "relay.Pass" :> <<R("_rename", "transform.Pass")>> @@
    "relay.PassInfo" :> <<R("_rename", "transform.PassInfo")>> @@
    "relay.PassContext" :> <<R("_rename", "transform.PassContext")>> @@
    "relay.ModulePass" :> <<R("_rename", "transform.ModulePass")>> @@
    "relay.Sequential" :> <<R("_rename", "transform.Sequential")>> @@
    "StrMap" :> <<R("_rename", "Map")>> @@
    "Variable" :> <<R("_update_tir_var", "tir.Var"), R("_update_from_std_str", "name")>> @@
    "SizeVar" :> <<R("_update_tir_var", "tir.SizeVar"), R("_update_from_std_str", "name")>> @@
    "StringImm" :> <<R("_rename", "tir.StringImm"), R("_update_from_std_str", "value")>> @@
    "Cast" :> <<R("_rename", "tir.Cast")>> @@
    "Add" :> <<R("_rename", "tir.Add")>> @@
    "Sub" :> <<R("_rename", "tir.Sub")>> @@
    "Mul" :> <<R("_rename", "tir.Mul")>> @@
    "Div" :> <<R("_rename", "tir.Div")>> @@
    "Mod" :> <<R("_rename", "tir.Mod")>> @@
    "FloorDiv" :> <<R("_rename", "tir.FloorDiv")>> @@
    "FloorMod" :> <<R("_rename", "tir.FloorMod")>> @@
    "Min" :> <<R("_rename", "tir.Min")>> @@
    "Max" :> <<R("_rename", "tir.Max")>> @@
    "EQ" :> <<R("_rename", "tir.EQ")>> @@
    "NE" :> <<R("_rename", "tir.NE")>> @@
    "LT" :> <<R("_rename", "tir.LT")>> @@
    "LE" :> <<R("_rename", "tir.LE")>> @@
    "GT" :> <<R("_rename", "tir.GT")>> @@
    "GE" :> <<R("_rename", "tir.GE")>> @@
    "And" :> <<R("_rename", "tir.And")>> @@
    "Or" :> <<R("_rename", "tir.Or")>> @@
    "Not" :> <<R("_rename", "tir.Not")>> @@
    "Select" :> <<R("_rename", "tir.Select")>> @@
    "BufferLoad" :> <<R("_rename", "tir.BufferLoad")>> @@
    "Ramp" :> <<R("_rename", "tir.Ramp")>> @@
    "Broadcast" :> <<R("_rename", "tir.Broadcast")>> @@
    "Shuffle" :> <<R("_rename", "tir.Shuffle")>> @@
    "Call" :> <<R("_rename", "tir.Call"), R("_update_from_std_str", "name")>> @@
    "Let" :> <<R("_rename", "tir.Let")>> @@
    "Any" :> <<R("_rename", "tir.Any")>> @@
    "LetStmt" :> <<R("_rename", "tir.LetStmt")>> @@
    "AssertStmt" :> <<R("_rename", "tir.AssertStmt")>> @@
    "BufferStore" :> <<R("_rename", "tir.BufferStore")>> @@
    "BufferRealize" :> <<R("_rename", "tir.BufferRealize")>> @@
    "Allocate" :> <<R("_rename", "tir.Allocate")>> @@
    "IfThenElse" :> <<R("_rename", "tir.IfThenElse")>> @@
    "Evaluate" :> <<R("_rename", "tir.Evaluate")>> @@
    "Prefetch" :> <<R("_rename", "tir.Prefetch")>> @@
    "AttrStmt" :> <<R("_rename", "tir.AttrStmt"), R("_update_from_std_str", "attr_key")>> @@
    "Layout" :> <<R("_rename", "tir.Layout"), R("_update_from_std_str", "name")>> @@
    "Buffer" :> <<R("_rename", "tir.Buffer"), R("_update_from_std_str", "name"), R("_update_from_std_str", "scope")>>

node_map_08_to_09 ==
    [t \in {"GlobalVar", "relay.Var", "relay.Function", "relay.Tuple", "relay.Call", "relay.Let", "relay.If", "relay.TupleGetItem", "relay.RefCreate", "relay.RefRead", "relay.RefWrite", "relay.Match", "relay.Constant"}
        |-> <<R("_initialize_virtual_device", "")>>]

(* variant of node_map_07_to_08: keyed by the tag of version 0.6 *)
node_map_07_to_08_legacy ==
    "relay.Module" :> <<R("_initialize_module_attributes", "")>>

node_map_07_to_08 ==
    "IRModule" :> <<R("_initialize_module_attributes", "")>>

create_updater(node_map, from_ver, to_ver) ==
    [node_map |-> node_map, from_ver |-> from_ver, to_ver |-> to_ver]

(* variant of create_updater_08_to_09: to_ver left at the source version *)
create_updater_08_to_09_unstamped == create_updater(node_map_08_to_09, V08, V08)

create_updater_08_to_09 == create_updater(node_map_08_to_09, V08, V09)

(* variant of create_updater_07_to_08: from_ver of the next step *)
create_updater_07_to_08_wrong_from == create_updater(node_map_07_to_08, V08, V08)

create_updater_07_to_08 == create_updater(node_map_07_to_08, V07, V08)

(* variant of create_updater_06_to_07: to_ver of another step *)
create_updater_06_to_07_wrong_to == create_updater(node_map_06_to_07, V06, V08)

create_updater_06_to_07 == create_updater(node_map_06_to_07, V06, V07)

Updater ==
    "06_to_07" :> create_updater_06_to_07 @@
    "07_to_08" :> create_updater_07_to_08 @@
    "08_to_09" :> create_updater_08_to_09

(* variant of Lookup: a tag with no entry gets a default rule *)
Lookup_default(node_map, type_key) ==
    IF type_key \in DOMAIN node_map THEN node_map[type_key]
    ELSE <<R("_initialize_virtual_device", "")>>

(* node_map.get(item["type_key"], None); a single function is a chain of one *)
Lookup(node_map, type_key) ==
    IF type_key \in DOMAIN node_map THEN node_map[type_key] ELSE <<>>

(* variant of VisitNode: the tag is looked up again after a rename *)
VisitNode_redispatch(node_map, ns, i) ==
    LET f == Lookup(node_map, At(ns, i).type_key)
        r == ApplyChain(f, 1, Ok(ns), i) IN
    IF r.err # "" THEN r
    ELSE LET t2 == At(r.nodes, i).type_key
             g == IF t2 # At(ns, i).type_key THEN Lookup(node_map, t2) ELSE <<>> IN
         ApplyChain(g, 1, r, i)

(* variant of VisitNode: an exception of a rule is caught and dropped *)
VisitNode_swallow(node_map, ns, i) ==
    LET f == Lookup(node_map, At(ns, i).type_key)
        r == ApplyChain(f, 1, Ok(ns), i) IN
    [r EXCEPT !.err = ""]

(* one iteration of the loop of _updater: lines 47-53 *)
VisitNode(node_map, ns, i) ==
    LET f == Lookup(node_map, At(ns, i).type_key)
        r == ApplyChain(f, 1, Ok(ns), i) IN
    IF r.err # "" THEN r
    ELSE [r EXCEPT !.nodes = SetAt(r.nodes, i, At(r.nodes, i))]

(* the loop test of "for idx, item in enumerate(nodes)": the list iterator *)
(* compares its position with the current length of the list              *)
HasNext(ns, i) == i < Len(ns)

(* variants of SelectChain: the 0.6 branch omits the 0.7->0.8 updater;    *)
(* the last branch is an else; the last branch tests the major version   *)
SelectChain_skip(from_version) ==
    IF StartsWith(from_version, V06) THEN <<"06_to_07", "08_to_09">>
    ELSE IF StartsWith(from_version, V07) THEN <<"07_to_08", "08_to_09">>
    ELSE IF StartsWith(from_version, V08) THEN <<"08_to_09">>
    ELSE <<>>

SelectChain_else(from_version) ==
    IF StartsWith(from_version, V06) THEN <<"06_to_07", "07_to_08", "08_to_09">>
    ELSE IF StartsWith(from_version, V07) THEN <<"07_to_08", "08_to_09">>
    ELSE <<"08_to_09">>

SelectChain_major(from_version) ==
    IF StartsWith(from_version, V06) THEN <<"06_to_07", "07_to_08", "08_to_09">>
    ELSE IF StartsWith(from_version, V07) THEN <<"07_to_08", "08_to_09">>
    ELSE IF StartsWith(from_version, <<"0", ".">>) THEN <<"08_to_09">>
    ELSE <<>>

(* the if / elif chain of upgrade_json, innermost call first *)
SelectChain(from_version) ==
    IF StartsWith(from_version, V06) THEN <<"06_to_07", "07_to_08", "08_to_09">>
    ELSE IF StartsWith(from_version, V07) THEN <<"07_to_08", "08_to_09">>
    ELSE IF StartsWith(from_version, V08) THEN <<"08_to_09">>
    ELSE <<>>

(* ----------------- the calls as functions of their input ------------- *)

Fail == [ok |-> FALSE]

(* lines 46-53: the whole loop of _updater from index i on *)
RECURSIVE Scan(_, _, _)
Scan(node_map, ns, i) ==
    IF ~HasNext(ns, i) THEN Ok(ns)
    ELSE LET r == VisitNode(node_map, ns, i) IN
         IF r.err # "" THEN r ELSE Scan(node_map, r.nodes, i + 1)

(* lines 43-55: _updater(data) of the updater u *)
_updater(u, data) ==
    IF ~StartsWith(data.attrs.tvm_version, u.from_ver) THEN Fail
    ELSE LET r == Scan(u.node_map, data.nodes, 0) IN
         IF r.err # "" THEN Fail
         ELSE [ok |-> TRUE,
               data |-> [data EXCEPT !.nodes = r.nodes, !.attrs.tvm_version = u.to_ver]]

(* lines 257-261: the nested calls, innermost first *)
RECURSIVE RunChain(_, _)
RunChain(c, data) ==
    IF c = <<>> THEN [ok |-> TRUE, data |-> data]
    ELSE LET r == _updater(Updater[Head(c)], data) IN
         IF r.ok THEN RunChain(Tail(c), r.data) ELSE Fail

(* lines 240-264 *)
upgrade_json(s) ==
    LET data == Loads(s)
        c == SelectChain(data.attrs.tvm_version) IN
    IF c = <<>> THEN Fail
    ELSE LET r == RunChain(c, data) IN
         IF r.ok THEN [ok |-> TRUE, out |-> Dumps(r.data)] ELSE Fail

(* line 263: raise ValueError(f"Cannot update from version {from_version}") *)
CannotUpdate(from_version) ==
    <<"ValueError", "Cannot update from version ", from_version>>

(* ------------------------------ inputs -------------------------------- *)

Versions == {V03, V06, V061, V07, V08, V09}

NodeChoices(n) ==
    {[type_key |-> "relay.TypeVar", attrs |-> ("var" :> FormatInt(i))] : i \in 0 .. n - 1}
    \cup {[type_key |-> "Add", attrs |-> ("a" :> FormatInt(i))] : i \in 0 .. n - 1}
    \cup {[type_key |-> "Variable", attrs |-> ("name" :> "x")],
          [type_key |-> "relay.GlobalVar", attrs |-> ("name_hint" :> "x")],
          [type_key |-> "relay.Module", attrs |-> EmptyDict],
          [type_key |-> "IntImm", attrs |-> ("dtype" :> "int32")]}

Envelope(v, ns) ==
    [attrs |-> [tvm_version |-> v], nodes |-> ns, root |-> Len(ns) - 1]

(* ------------------------------ state --------------------------------- *)

(* no second call of upgrade_json is in flight *)
NoPeer == [pc |-> "none"]

(* no call of a densify rewrite is in flight *)
NoDensify == [pc |-> "none"]

Init ==
    /\ \E n \in 1 .. MaxNodes, v \in Versions :
          \E ns \in [1 .. n -> NodeChoices(n)] : json_str = Dumps(Envelope(v, ns))
    /\ pc = "start"
    /\ version = <<>>
    /\ nodes = <<>>
    /\ root = 0
    /\ chain = <<>>
    /\ idx = 0
    /\ err = <<>>
    /\ output = ""
    /\ log = <<>>
    /\ startLen = 0
    /\ visited = <<>>
    /\ touched = {}
    /\ peer = NoPeer
    /\ encoder = StringEncoder
    /\ dz = NoDensify

(* lines 253-263: parse, read the declared version, select the updaters *)
Start ==
    /\ pc = "start"
    /\ LET data == Loads(json_str)
           from_version == data.attrs.tvm_version
           c == SelectChain(from_version) IN
       /\ version' = from_version
       /\ nodes' = data.nodes
       /\ root' = data.root
       /\ chain' = c
       /\ IF c = <<>>
          THEN pc' = "error" /\ err' = CannotUpdate(from_version)
          ELSE pc' = "call" /\ err' = err
    /\ UNCHANGED <<json_str, idx, output, log, startLen, visited, touched, peer, encoder, dz>>

(* line 44-46: entry of _updater, the assertion and the start of the loop *)
BeginPass ==
    /\ pc = "call"
    /\ IF StartsWith(version, Updater[Head(chain)].from_ver)
       THEN /\ pc' = "scan"
            /\ idx' = 0
            /\ log' = Append(log, <<"begin", Head(chain)>>)
            /\ startLen' = Len(nodes)
            /\ visited' = <<>>
            /\ err' = err
       ELSE /\ pc' = "error"
            /\ err' = <<"AssertionError">>
            /\ UNCHANGED <<idx, log, startLen, visited>>
    /\ UNCHANGED <<json_str, version, nodes, root, chain, output, touched, peer, encoder, dz>>

(* lines 46-53: one iteration of the loop *)
Visit ==
    /\ pc = "scan"
    /\ HasNext(nodes, idx)
    /\ LET r == VisitNode(Updater[Head(chain)].node_map, nodes, idx) IN
       /\ nodes' = r.nodes
       /\ visited' = Append(visited, idx)
       /\ touched' = touched \cup r.tomb \cup
                     (IF At(nodes, idx).type_key \in DOMAIN Updater[Head(chain)].node_map
                      THEN {idx} ELSE {})
       /\ IF r.err # ""
          THEN pc' = "error" /\ err' = <<r.err>> /\ idx' = idx
          ELSE pc' = pc /\ err' = err /\ idx' = idx + 1
    /\ UNCHANGED <<json_str, version, root, chain, output, log, startLen, peer, encoder, dz>>

(* lines 54-55: the loop is exhausted, stamp to_ver and return data *)
EndPass ==
    /\ pc = "scan"
    /\ ~HasNext(nodes, idx)
    /\ version' = Updater[Head(chain)].to_ver
    /\ log' = Append(log, <<"end", Head(chain)>>)
    /\ chain' = Tail(chain)
    /\ pc' = IF Tail(chain) = <<>> THEN "dump" ELSE "call"
    /\ UNCHANGED <<json_str, nodes, root, idx, err, output, startLen, visited, touched, peer, encoder, dz>>

(* variant of Return: the root written out is the last index of the table *)
Return_reroot ==
    /\ pc = "dump"
    /\ output' = Dumps([attrs |-> [tvm_version |-> version], nodes |-> nodes,
                        root |-> Len(nodes) - 1])
    /\ pc' = "done"
    /\ UNCHANGED <<json_str, version, nodes, root, chain, idx, err, log, startLen, visited,
                   touched, peer, encoder, dz>>

(* line 264 *)
Return ==
    /\ pc = "dump"
    /\ output' = Dumps([attrs |-> [tvm_version |-> version], nodes |-> nodes, root |-> root])
    /\ pc' = "done"
    /\ UNCHANGED <<json_str, version, nodes, root, chain, idx, err, log, startLen, visited, touched, peer, encoder, dz>>

Next == Start \/ BeginPass \/ Visit \/ EndPass \/ Return

Spec == Init /\ [][Next]_vars

(* ------------- snapshots with references outside the table ------------ *)

RefChoices(n) ==
    {[type_key |-> "relay.TypeVar", attrs |-> ("var" :> FormatInt(i))] : i \in {-(n + 1), -1, n}}
    \cup {[type_key |-> "Variable", attrs |-> ("name" :> "x")],
          [type_key |-> "IntImm", attrs |-> ("dtype" :> "int32")]}

InitRefs ==
    /\ \E n \in 1 .. MaxNodes :
          \E ns \in [1 .. n -> RefChoices(n)] : json_str = Dumps(Envelope(V06, ns))
    /\ pc = "start"
    /\ version = <<>>
    /\ nodes = <<>>
    /\ root = 0
    /\ chain = <<>>
    /\ idx = 0
    /\ err = <<>>
    /\ output = ""
    /\ log = <<>>
    /\ startLen = 0
    /\ visited = <<>>
    /\ touched = {}
    /\ peer = NoPeer
    /\ encoder = StringEncoder
    /\ dz = NoDensify

SpecRefs == InitRefs /\ [][Next]_vars

(* ---------- snapshots with nodes of other shapes and tags ------------- *)

MaxShapeNodes == 2

ShapeVersions == {V06, V07, V08}

ShapeChoices(n) ==
    {[type_key |-> "relay.TypeVar", attrs |-> ("var" :> FormatInt(i))] : i \in 0 .. n - 1}
    \cup {[type_key |-> "Buffer", attrs |-> ("name" :> "b" @@ "scope" :> "s")],
          [type_key |-> "Buffer", attrs |-> ("name" :> "b")],
          [type_key |-> "Call", attrs |-> EmptyDict],
          [type_key |-> "relay.TypeVar", attrs |-> EmptyDict],
          [type_key |-> "Variable", attrs |-> ("name" :> "x")],
          [type_key |-> "SourceName", global_key |-> "g"],
          [type_key |-> "relay.Op", global_key |-> "g"],
          [type_key |-> "relay.SourceName", global_key |-> "g"],
          [type_key |-> "GlobalVar", attrs |-> ("name_hint" :> "x")],
          [type_key |-> "GlobalVar", attrs |-> ("name_hint" :> "x" @@ "virtual_device_" :> "5")],
          [type_key |-> "IRModule", attrs |-> EmptyDict],
          [type_key |-> "IRModule", attrs |-> ("attrs" :> "7")]}

InitShapes ==
    /\ \E n \in 1 .. MaxShapeNodes, v \in ShapeVersions :
          \E ns \in [1 .. n -> ShapeChoices(n)] : json_str = Dumps(Envelope(v, ns))
    /\ pc = "start"
    /\ version = <<>>
    /\ nodes = <<>>
    /\ root = 0
    /\ chain = <<>>
    /\ idx = 0
    /\ err = <<>>
    /\ output = ""
    /\ log = <<>>
    /\ startLen = 0
    /\ visited = <<>>
    /\ touched = {}
    /\ peer = NoPeer
    /\ encoder = StringEncoder
    /\ dz = NoDensify

SpecShapes == InitShapes /\ [][Next]_vars

(* ------- snapshots migrated with encoders of either answer ------------ *)

MaxSvcNodes == 2

MaxSvcTable == 6

Encoders == {StringEncoder, "GlobalVar"}

SvcChoices ==
    {[type_key |-> "relay.GlobalVar", attrs |-> ("name_hint" :> "x")],
     [type_key |-> "Variable", attrs |-> ("name" :> "x")],
     [type_key |-> "IntImm", attrs |-> ("dtype" :> "int32")]}

InitSvc ==
    /\ \E n \in 1 .. MaxSvcNodes, v \in {V06, V08} :
          \E ns \in [1 .. n -> SvcChoices] : json_str = Dumps(Envelope(v, ns))
    /\ encoder \in Encoders
    /\ pc = "start"
    /\ version = <<>>
    /\ nodes = <<>>
    /\ root = 0
    /\ chain = <<>>
    /\ idx = 0
    /\ err = <<>>
    /\ output = ""
    /\ log = <<>>
    /\ startLen = 0
    /\ visited = <<>>
    /\ touched = {}
    /\ peer = NoPeer
    /\ dz = NoDensify

(* the scan is followed up to MaxSvcTable nodes *)
VisitSvc == Len(nodes) < MaxSvcTable /\ Visit

NextSvc == Start \/ BeginPass \/ VisitSvc \/ EndPass \/ Return

SpecSvc == InitSvc /\ [][NextSvc]_vars

(* --------------- two calls of upgrade_json in flight ------------------ *)
(* A second call runs the same code on its own snapshot; its locals are   *)
(* the fields of peer.  The two calls interleave at the loop iterations.  *)

MaxConcNodes == 1

ConcVersions == {V06, V08}

ConcChoices(n) ==
    {[type_key |-> "relay.TypeVar", attrs |-> ("var" :> FormatInt(i))] : i \in 0 .. n - 1}
    \cup {[type_key |-> "Variable", attrs |-> ("name" :> "x")],
          [type_key |-> "relay.GlobalVar", attrs |-> ("name_hint" :> "y")]}

NewCall(s) ==
    [json_str |-> s, pc |-> "start", version |-> <<>>, nodes |-> <<>>, root |-> 0,
     chain |-> <<>>, idx |-> 0, err |-> <<>>, output |-> ""]

(* variant of OwnTable: the table of the other call in flight *)
OwnTable_shared(own, other) == other

(* line 45: nodes = data["nodes"], the list parsed from this call's json_str *)
OwnTable(own, other) == own

(* one step of the second call: lines 253-263, 44-46, 46-53, 54-55, 264 *)
CallStep(m, other) ==
    CASE m.pc = "start" ->
           LET data == Loads(m.json_str)
               from_version == data.attrs.tvm_version
               c == SelectChain(from_version) IN
           [m EXCEPT !.version = from_version, !.nodes = data.nodes, !.root = data.root,
                     !.chain = c,
                     !.pc = IF c = <<>> THEN "error" ELSE "call",
                     !.err = IF c = <<>> THEN CannotUpdate(from_version) ELSE @]
      [] m.pc = "call" ->
           IF StartsWith(m.version, Updater[Head(m.chain)].from_ver)
           THEN [m EXCEPT !.pc = "scan", !.idx = 0]
           ELSE [m EXCEPT !.pc = "error", !.err = <<"AssertionError">>]
      [] m.pc = "scan" /\ HasNext(OwnTable(m.nodes, other), m.idx) ->
           LET r == VisitNode(Updater[Head(m.chain)].node_map,
                              OwnTable(m.nodes, other), m.idx) IN
           IF r.err # ""
           THEN [m EXCEPT !.nodes = r.nodes, !.pc = "error", !.err = <<r.err>>]
           ELSE [m EXCEPT !.nodes = r.nodes, !.idx = @ + 1]
      [] m.pc = "scan" /\ ~HasNext(OwnTable(m.nodes, other), m.idx) ->
           [m EXCEPT !.version = Updater[Head(m.chain)].to_ver,
                     !.chain = Tail(@),
                     !.pc = IF Tail(m.chain) = <<>> THEN "dump" ELSE "call"]
      [] m.pc = "dump" ->
           [m EXCEPT !.pc = "done",
                     !.output = Dumps([attrs |-> [tvm_version |-> m.version],
                                       nodes |-> m.nodes, root |-> m.root])]

PeerStep ==
    /\ peer.pc \in {"start", "call", "scan", "dump"}
    /\ peer' = CallStep(peer, nodes)
    /\ UNCHANGED <<json_str, pc, version, nodes, root, chain, idx, err, output,
                   log, startLen, visited, touched, encoder, dz>>

InitConc ==
    /\ \E n \in 1 .. MaxConcNodes, v \in ConcVersions :
          \E ns \in [1 .. n -> ConcChoices(n)] : json_str = Dumps(Envelope(v, ns))
    /\ \E n \in 1 .. MaxConcNodes, v \in ConcVersions :
          \E ns \in [1 .. n -> ConcChoices(n)] : peer = NewCall(Dumps(Envelope(v, ns)))
    /\ pc = "start"
    /\ version = <<>>
    /\ nodes = <<>>
    /\ root = 0
    /\ chain = <<>>
    /\ idx = 0
    /\ err = <<>>
    /\ output = ""
    /\ log = <<>>
    /\ startLen = 0
    /\ visited = <<>>
    /\ touched = {}
    /\ encoder = StringEncoder
    /\ dz = NoDensify

NextConc == Start \/ BeginPass \/ Visit \/ EndPass \/ Return \/ PeerStep

SpecConc == InitConc /\ [][NextConc]_vars

(* ------------- the densify rewrites of qnn_legalize.py ---------------- *)
(* dz holds one call of _densify_conv_depthwise_conv_pattern or of        *)
(* _densify_conv_pool_dense_pattern.  A dictionary of fixed channels is   *)
(* the sequence of its keys in insertion order; the local names that are  *)
(* bound are in dz.bound.                                                 *)

MaxChannels == 3

Channels == 0 .. MaxChannels - 1

(* the keys a loop over range(num_channels) inserts, in that order *)
RECURSIVE KeysFrom(_, _)
KeysFrom(i, S) ==
    IF i >= MaxChannels THEN <<>>
    ELSE (IF i \in S THEN <<i>> ELSE <<>>) \o KeysFrom(i + 1, S)

(* _compute_fixed_conv2d_outputs: the channels whose kernel is all zero *)
_compute_fixed_conv2d_outputs(zero) == KeysFrom(0, zero)

(* _compute_fixed_depthwise_outputs: of the fixed inputs, in their order, *)
(* the channels whose padded convolution has one value everywhere         *)
_compute_fixed_depthwise_outputs(uniform, fixed_channel_inputs) ==
    SelectSeq(fixed_channel_inputs, LAMBDA c : c \in uniform)

(* dict.popitem(): the pair inserted last is removed *)
PopItem(d) == SubSeq(d, 1, Len(d) - 1)

NewDensify(fn, zero, uniform) ==
    [fn |-> fn, pc |-> "enter", zero |-> zero, uniform |-> uniform,
     bound |-> {}, fixed_conv2d_outputs |-> <<>>, fixed_dw_outputs |-> <<>>,
     unneeded_channels |-> <<>>, result |-> "", err |-> ""]

(* the dictionary the parity test, the emptiness test and the excision read *)
Tested(d) ==
    IF d.fn = "_densify_conv_depthwise_conv_pattern"
    THEN d.fixed_dw_outputs ELSE d.fixed_conv2d_outputs

(* lines 274-280 and 308-312 *)
DensifyCompute ==
    /\ dz.pc = "enter"
    /\ LET conv == _compute_fixed_conv2d_outputs(dz.zero) IN
       dz' = IF dz.fn = "_densify_conv_depthwise_conv_pattern"
             THEN [dz EXCEPT !.pc = "parity",
                             !.fixed_conv2d_outputs = conv,
                             !.fixed_dw_outputs =
                                 _compute_fixed_depthwise_outputs(dz.uniform, conv),
                             !.bound = {"fixed_conv2d_outputs", "fixed_dw_outputs"}]
             ELSE [dz EXCEPT !.pc = "parity",
                             !.fixed_conv2d_outputs = conv,
                             !.bound = {"fixed_conv2d_outputs"}]
    /\ UNCHANGED <<json_str, pc, version, nodes, root, chain, idx, err, output,
                   log, startLen, visited, touched, peer, encoder>>

(* lines 283-284 and 315-316: both call fixed_dw_outputs.popitem() *)
DensifyParity ==
    /\ dz.pc = "parity"
    /\ dz' = IF Len(Tested(dz)) % 2 > 0
             THEN IF "fixed_dw_outputs" \in dz.bound
                  THEN [dz EXCEPT !.pc = "empty",
                                  !.fixed_dw_outputs = PopItem(dz.fixed_dw_outputs)]
                  ELSE [dz EXCEPT !.pc = "error", !.err = "NameError"]
             ELSE [dz EXCEPT !.pc = "empty"]
    /\ UNCHANGED <<json_str, pc, version, nodes, root, chain, idx, err, output,
                   log, startLen, visited, touched, peer, encoder>>

(* lines 286-287 and 318-319 *)
DensifyEmpty ==
    /\ dz.pc = "empty"
    /\ dz' = IF Tested(dz) = <<>>
             THEN [dz EXCEPT !.pc = "done", !.result = "None"]
             ELSE [dz EXCEPT !.pc = "excise"]
    /\ UNCHANGED <<json_str, pc, version, nodes, root, chain, idx, err, output,
                   log, startLen, visited, touched, peer, encoder>>

(* lines 289-298 and 321-328: the channels are excised, the bias add built *)
DensifyExcise ==
    /\ dz.pc = "excise"
    /\ dz' = [dz EXCEPT !.pc = "done",
                        !.unneeded_channels = Tested(dz),
                        !.result = "nn.bias_add"]
    /\ UNCHANGED <<json_str, pc, version, nodes, root, chain, idx, err, output,
                   log, startLen, visited, touched, peer, encoder>>

InitDensify ==
    /\ \E fn \in {"_densify_conv_depthwise_conv_pattern", "_densify_conv_pool_dense_pattern"} :
          \E zero \in SUBSET Channels : \E uniform \in SUBSET Channels :
              dz = NewDensify(fn, zero, uniform)
    /\ json_str = Dumps(Envelope(V09, <<>>))
    /\ pc = "none"
    /\ version = <<>>
    /\ nodes = <<>>
    /\ root = 0
    /\ chain = <<>>
    /\ idx = 0
    /\ err = <<>>
    /\ output = ""
    /\ log = <<>>
    /\ startLen = 0
    /\ visited = <<>>
    /\ touched = {}
    /\ peer = NoPeer
    /\ encoder = StringEncoder

NextDensify == DensifyCompute \/ DensifyParity \/ DensifyEmpty \/ DensifyExcise

SpecDensify == InitDensify /\ [][NextDensify]_vars

TypeOK ==
    /\ pc \in {"start", "call", "scan", "dump", "done", "error"}
    /\ idx \in 0 .. Len(nodes)

(* ------------------------- claims: helpers ---------------------------- *)

In == Loads(json_str)

InVersion == In.attrs.tvm_version

InNodes == In.nodes

Returned == pc = "done"

Failed == pc = "error"

IsPrefix(s, t) == Len(s) <= Len(t) /\ SubSeq(t, 1, Len(s)) = s

RECURSIVE Completed(_)
Completed(l) ==
    IF l = <<>> THEN <<>>
    ELSE IF Head(l)[1] = "end" THEN <<Head(l)[2]>> \o Completed(Tail(l))
    ELSE Completed(Tail(l))

RECURSIVE Events(_)
Events(passes) ==
    IF passes = <<>> THEN <<>>
    ELSE << <<"begin", Head(passes)>>, <<"end", Head(passes)>> >> \o Events(Tail(passes))

ExpectedPasses ==
    IF StartsWith(InVersion, V06) THEN <<"06_to_07", "07_to_08", "08_to_09">>
    ELSE IF StartsWith(InVersion, V07) THEN <<"07_to_08", "08_to_09">>
    ELSE <<"08_to_09">>

KnownSource ==
    \/ StartsWith(InVersion, V06)
    \/ StartsWith(InVersion, V07)
    \/ StartsWith(InVersion, V08)

AtBoundary == pc \in {"call", "dump", "done"} /\ log # <<>>

(* ------------------------------ claims -------------------------------- *)

(* C1: for a declared version that starts with 0.6, 0.7 or 0.8 (a suffix  *)
(* such as 0.6.1 included) the version passes run in increasing order,    *)
(* none skipped or reordered: the passes completed so far followed by the *)
(* passes still to run are exactly the chain of that version, the begin   *)
(* and end events alternate in that order, a pass has ended only when its *)
(* scan has reached the end of the table, and a returned call has run     *)
(* them all.                                                              *)
C1_PassesInOrder ==
    (KnownSource /\ pc # "start") =>
        /\ Completed(log) \o chain = ExpectedPasses
        /\ IsPrefix(log, Events(ExpectedPasses))
        /\ (AtBoundary => idx = Len(nodes) /\ Len(visited) = Len(nodes))
        /\ (Returned => log = Events(ExpectedPasses))

C1_Witness ==
    /\ Returned
    /\ InVersion = V061
    /\ log = Events(<<"06_to_07", "07_to_08", "08_to_09">>)

(* C2: whenever upgrade_json returns, the version field of the returned   *)
(* envelope is exactly 0.9, never the declared version or 0.7 or 0.8.     *)
C2_ReturnsTerminalVersion ==
    Returned => Loads(output).attrs.tvm_version = V09

C2_Witness ==
    /\ Returned
    /\ InVersion = V061
    /\ Loads(output).attrs.tvm_version = V09

(* C3: a declared version that starts with none of 0.6, 0.7, 0.8 makes    *)
(* upgrade_json fail with "Cannot update from version X": no pass begins, *)
(* no node is visited or changed, the version field is unchanged and      *)
(* nothing is returned.                                                   *)
C3_UnknownVersionFails ==
    (~KnownSource /\ pc # "start") =>
        /\ Failed
        /\ err = <<"ValueError", "Cannot update from version ", InVersion>>
        /\ log = <<>> /\ visited = <<>> /\ touched = {}
        /\ nodes = InNodes
        /\ version = InVersion
        /\ output = ""

C3_Witness ==
    /\ InVersion = V03
    /\ Failed
    /\ err = <<"ValueError", "Cannot update from version ", V03>>

(* C4 as stated: a snapshot that declares the terminal version 0.9 is     *)
(* migrated as a no-op: no rule set runs and upgrade_json returns content *)
(* identical to its input.                                                *)
C4_TerminalIsNoOp ==
    (InVersion = V09 /\ pc # "start") =>
        /\ ~Failed
        /\ log = <<>>
        /\ (Returned => Loads(output) = In)

(* C4 amended: for a snapshot that declares 0.9 upgrade_json selects no   *)
(* rule set and leaves the snapshot as it was, but it does not return it: *)
(* the call fails with "Cannot update from version 0.9".                  *)
C4_TerminalRejectedUnchanged ==
    (InVersion = V09 /\ pc # "start") =>
        /\ chain = <<>> /\ log = <<>>
        /\ [attrs |-> [tvm_version |-> version], nodes |-> nodes, root |-> root] = In
        /\ Failed /\ err[1] = "ValueError"
        /\ output = ""

C4_Witness ==
    /\ InVersion = V09
    /\ Failed
    /\ nodes = InNodes

(* C5: during one version pass only the indices 0..N-1 are visited, N the *)
(* table length when the pass started: a node appended during the pass is *)
(* not visited in that pass.                                              *)
C5_VisitsOnlyInitialLength ==
    \A k \in 1 .. Len(visited) : visited[k] < startLen

(* the tags a rule chain of the 0.6->0.7 rule set gives to a node of tag t *)
RenameTargets(t) ==
    IF t \notin DOMAIN node_map_06_to_07 THEN {}
    ELSE LET f == node_map_06_to_07[t] IN
         {f[k].arg : k \in {j \in DOMAIN f : f[j].kind \in {"_rename", "_update_tir_var"}}}
         \cup (IF t \in DOMAIN StripRelay THEN {StripRelay[t]} ELSE {})

(* b is the node a, possibly rewritten or tombstoned by the rules *)
SameNode(a, b) ==
    /\ b.type_key \in {"", a.type_key} \cup RenameTargets(a.type_key)
    /\ DOMAIN a \ {"global_key"} \subseteq DOMAIN b
    /\ "attrs" \in DOMAIN a => DOMAIN a.attrs \ {"var"} \subseteq DOMAIN b.attrs

(* C6: every node of the input table is still at its index (possibly      *)
(* rewritten or tombstoned), the table is never shorter than the input,   *)
(* and a node no rule touched is identical at the same index.             *)
C6_IndexStability ==
    pc # "start" =>
        /\ Len(nodes) >= Len(InNodes)
        /\ \A i \in 0 .. Len(InNodes) - 1 :
              /\ SameNode(At(InNodes, i), At(nodes, i))
              /\ (i \notin touched => At(nodes, i) = At(InNodes, i))

C6_Witness ==
    /\ Returned
    /\ Len(nodes) > Len(InNodes)
    /\ \E i, j \in 0 .. Len(InNodes) - 1 :
          /\ i \notin touched /\ At(nodes, i) = At(InNodes, i)
          /\ j \in touched /\ At(nodes, j) # At(InNodes, j)

(* C7: across every step of a version pass the table length does not      *)
(* decrease, every node appended by the step sits at the index that was   *)
(* the table length before its append and that index is the one recorded  *)
(* in the visited node, and every index in use before the step still      *)
(* designates the same node (unchanged, rewritten in place at the visited *)
(* index, or tombstoned).                                                 *)
C7_AppendOnlyGrowth ==
    [][pc = "scan" =>
        /\ Len(nodes') >= Len(nodes)
        /\ \A i \in 0 .. Len(nodes) - 1 :
              IF i = idx /\ idx' = idx + 1
              THEN SameNode(At(nodes, i), At(nodes', i))
              ELSE \/ At(nodes', i) = At(nodes, i)
                   \/ At(nodes', i) = [At(nodes, i) EXCEPT !.type_key = ""]
        /\ \A j \in Len(nodes) .. Len(nodes') - 1 :
              /\ At(nodes', j).type_key = "runtime.String"
              /\ \E k \in DOMAIN At(nodes', idx).attrs :
                    /\ At(nodes', idx).attrs[k] = FormatInt(j)
                    /\ (k \in DOMAIN At(nodes, idx).attrs =>
                          At(nodes', j).repr_str = At(nodes, idx).attrs[k])]_vars

C7_Witness ==
    /\ pc = "scan"
    /\ idx > 0
    /\ Len(nodes) > startLen
    /\ At(nodes, Len(nodes) - 1).type_key = "runtime.String"

(* C8: for every 0.6 snapshot, one upgrade_json call gives the same       *)
(* result as applying the 0.6->0.7 pass alone and then migrating the      *)
(* serialized intermediate snapshot with a second call: the same returned *)
(* envelope, or a failure in both.                                        *)
TwoCalls ==
    LET first == _updater(create_updater_06_to_07, In) IN
    IF first.ok THEN upgrade_json(Dumps(first.data)) ELSE Fail

C8_ChainCompleteness ==
    (StartsWith(InVersion, V06) /\ (Returned \/ Failed)) =>
        /\ Returned => (TwoCalls.ok /\ TwoCalls.out = output)
        /\ Failed => ~TwoCalls.ok

C8_Witness ==
    /\ StartsWith(InVersion, V06)
    /\ Returned
    /\ TwoCalls.ok /\ TwoCalls.out = output
    /\ Len(nodes) > Len(InNodes)
    /\ \E i \in 0 .. Len(nodes) - 1 : At(nodes, i).type_key = "IRModule"

(* the attribute keys whose value is an index into the node table: the    *)
(* reference-valued keys, except that in the 0.6 format the keys the      *)
(* 0.6->0.7 rule set promotes still hold an inline string                 *)
RefKeys ==
    {"var", "a", "name", "name_hint", "scope", "value", "attr_key",
     "type_annotation", "virtual_device_", "attrs"}

PromotedKeys(t) ==
    IF t \notin DOMAIN node_map_06_to_07 THEN {}
    ELSE LET f == node_map_06_to_07[t] IN
         {f[k].arg : k \in {j \in DOMAIN f : f[j].kind = "_update_from_std_str"}}

IndexKeys(node, v) ==
    IF "attrs" \notin DOMAIN node \/ node.type_key = "" THEN {}
    ELSE {k \in DOMAIN node.attrs \cap RefKeys :
            ~(StartsWith(v, V06) /\ k \in PromotedKeys(node.type_key))}

IsIndex(ns, s) == IsIntString(s) /\ ParseInt(s) >= 0 /\ ParseInt(s) < Len(ns)

InRange(ns, v) ==
    \A i \in 0 .. Len(ns) - 1 : \A k \in IndexKeys(At(ns, i), v) :
        IsIndex(ns, At(ns, i).attrs[k])

Resolves(ns, v, i) ==
    \A k \in IndexKeys(At(ns, i), v) :
        /\ IsIndex(ns, At(ns, i).attrs[k])
        /\ At(ns, ParseInt(At(ns, i).attrs[k])).type_key # ""

(* C9: for an input whose index-typed attribute values all lie inside the *)
(* table, at the end of every version pass every index-typed attribute    *)
(* value of every node is a valid index into the current table.           *)
C9_IndicesInRangeAtBoundaries ==
    (pc # "start" /\ InRange(InNodes, InVersion) /\ AtBoundary) =>
        InRange(nodes, version)

C9_Witness ==
    /\ InRange(InNodes, InVersion)
    /\ pc = "call" /\ version = V07
    /\ Len(nodes) > Len(InNodes)
    /\ \E i \in 0 .. Len(nodes) - 1 :
          /\ At(nodes, i).type_key = "TypeVar"
          /\ IsIndex(nodes, At(nodes, i).attrs.name_hint)
          /\ ParseInt(At(nodes, i).attrs.name_hint) >= Len(InNodes)

(* C10: for an input in which every index-typed attribute resolves to a   *)
(* non-tombstoned node, in the output of a successful migration every     *)
(* index-typed attribute of every surviving node, the nodes that made a   *)
(* cross-reference rewrite excepted, resolves to a non-tombstoned node.   *)
C10_NoReferenceToTombstone ==
    (Returned /\ \A i \in 0 .. Len(InNodes) - 1 : Resolves(InNodes, InVersion, i)) =>
        \A i \in 0 .. Len(nodes) - 1 :
            (i < Len(InNodes) /\ At(InNodes, i).type_key \in DOMAIN StripRelay)
            \/ Resolves(nodes, version, i)

(* the rule chain registered for the node about to be visited *)
CurrentChain == Lookup(Updater[Head(chain)].node_map, At(nodes, idx).type_key)

Visiting == pc = "scan" /\ HasNext(nodes, idx)

(* C11: a tag registered with a list of two rules [A, B] has them applied *)
(* left to right to a visited node: B is given the node and the table A   *)
(* left behind, and the table after the visit is the one B returns, the   *)
(* visited index holding B(A(node)); a failure of A or of B ends the run. *)
C11_ChainLeftToRight ==
    [][(Visiting /\ Len(CurrentChain) = 2) =>
          LET a == ApplyRule(CurrentChain[1], nodes, idx)
              b == ApplyRule(CurrentChain[2], a.nodes, idx) IN
          IF a.err # "" THEN pc' = "error" /\ nodes' = a.nodes
          ELSE IF b.err # "" THEN pc' = "error" /\ nodes' = b.nodes
          ELSE pc' = "scan" /\ nodes' = b.nodes]_vars

C11_Witness ==
    /\ pc = "scan" /\ Head(chain) = "06_to_07"
    /\ idx >= 1 /\ idx <= Len(InNodes)
    /\ At(InNodes, idx - 1).type_key = "relay.TypeVar"
    /\ At(nodes, idx - 1).type_key = "TypeVar"
    /\ At(nodes, idx - 1).attrs.name_hint = FormatInt(Len(nodes) - 1)
    /\ At(nodes, Len(nodes) - 1).type_key = "runtime.String"

(* C12: the 0.6.1 snapshot whose table is the single node                 *)
(* {type_key: Variable, attrs: {name: x}} migrates successfully to: the   *)
(* node at index 0 with type_key tir.Var and name "1", exactly one new    *)
(* node at index 1 holding the string x, and the version 0.9.             *)
ScenarioInput ==
    Envelope(V061, << [type_key |-> "Variable", attrs |-> ("name" :> "x")] >>)

C12_VariableScenario ==
    (In = ScenarioInput /\ pc # "start") =>
        /\ ~Failed
        /\ Returned =>
              LET out == Loads(output) IN
              /\ out.attrs.tvm_version = V09
              /\ Len(out.nodes) = 2
              /\ At(out.nodes, 0).type_key = "tir.Var"
              /\ At(out.nodes, 0).attrs.name = "1"
              /\ At(out.nodes, 1) = [type_key |-> "runtime.String", repr_str |-> "x"]

C12_Witness ==
    /\ In = ScenarioInput
    /\ Returned
    /\ At(Loads(output).nodes, 0).type_key = "tir.Var"

(* C13: when a rule fails during a pass the run stops there: the step     *)
(* that runs the failing chain ends in the failed state with no output    *)
(* and without advancing, and the failed state is never left, so no later *)
(* node is visited, no later pass runs and nothing is returned.           *)
C13_FailureIsFatal ==
    [][/\ (Visiting /\ ApplyChain(CurrentChain, 1, Ok(nodes), idx).err # "") =>
             (pc' = "error" /\ err' # <<>> /\ output' = "" /\ idx' = idx
              /\ log' = log /\ version' = version)
       /\ pc # "error"
       /\ (pc' = "error" => output' = "")]_vars

C13_Witness ==
    /\ Failed
    /\ err = <<"KeyError">>
    /\ log = << <<"begin", "06_to_07">> >>
    /\ idx < Len(nodes) - 1
    /\ output = ""

(* C14: the root index of the envelope never changes, it is a valid index *)
(* into the node table in every state after parsing, and the returned     *)
(* envelope has the fields of the input with the same root.               *)
C14_RootUnchanged ==
    pc # "start" =>
        /\ root = In.root
        /\ root >= 0 /\ root < Len(nodes)
        /\ Returned =>
              /\ Loads(output).root = In.root
              /\ DOMAIN Loads(output) = DOMAIN In
              /\ DOMAIN Loads(output).attrs = DOMAIN In.attrs

C14_Witness ==
    /\ Returned
    /\ Len(nodes) > Len(InNodes)
    /\ Loads(output).root = In.root
    /\ Loads(output).nodes # InNodes

(* C15: two calls in flight on independent snapshots, interleaved in any  *)
(* order at their node visits, each end as the call does when run alone:  *)
(* the same returned text, or a failure.                                  *)
AsAlone(state_pc, out, s) ==
    /\ state_pc = "done" => (upgrade_json(s).ok /\ upgrade_json(s).out = out)
    /\ state_pc = "error" => ~upgrade_json(s).ok

C15_IndependentCalls ==
    /\ AsAlone(pc, output, json_str)
    /\ peer.pc \in {"done", "error"} => AsAlone(peer.pc, peer.output, peer.json_str)

C15_Witness ==
    /\ Returned /\ peer.pc = "done"
    /\ json_str # peer.json_str
    /\ output # peer.output
    /\ Len(nodes) > Len(InNodes)
    /\ Len(peer.nodes) > Len(Loads(peer.json_str).nodes)

StringNode(s) == [type_key |-> "runtime.String", repr_str |-> s]

(* C16: in a migrated 0.6 snapshot, a relay.TypeVar or relay.GlobalTypeVar *)
(* node whose var referenced a Variable node named s has a name_hint that  *)
(* is the index of an appended string node holding s, wherever the         *)
(* Variable node sits relative to it.                                      *)
C16_NameHintIsVariableName ==
    (Returned /\ StartsWith(InVersion, V06)) =>
        \A i \in 0 .. Len(InNodes) - 1 :
            LET n == At(InNodes, i) IN
            (/\ n.type_key \in DOMAIN StripRelay
             /\ At(InNodes, ParseInt(n.attrs.var)).type_key = "Variable") =>
                LET h == At(nodes, i).attrs.name_hint IN
                /\ IsIndex(nodes, h)
                /\ ParseInt(h) >= Len(InNodes)
                /\ At(nodes, ParseInt(h)) =
                       StringNode(At(InNodes, ParseInt(n.attrs.var)).attrs.name)

(* C17: a relay.TypeVar or relay.GlobalTypeVar node of a 0.6 snapshot      *)
(* whose var is an integer outside 0..len(table)-1, negative or not, makes *)
(* its visit fail, and no node of the table is read or tombstoned.         *)
C17_OutOfRangeVarIsFatal ==
    [][(/\ Visiting /\ Head(chain) = "06_to_07"
        /\ At(nodes, idx).type_key \in DOMAIN StripRelay
        /\ IsIntString(At(nodes, idx).attrs.var)
        /\ ParseInt(At(nodes, idx).attrs.var) \notin 0 .. Len(nodes) - 1) =>
           (pc' = "error" /\ nodes' = nodes)]_vars

(* C18: a successful visit of a relay.TypeVar or relay.GlobalTypeVar node  *)
(* whose var references a node with a name leaves the referenced node with *)
(* the empty tag and its attributes as they were, the visiting node        *)
(* without var and with the tag stripped of "relay.", and its name_hint    *)
(* designating the value the referenced node's name had before the visit;  *)
(* the visit fails when the referenced node has no name.                   *)
C18_CrossReferenceRewrite ==
    [][(/\ Visiting /\ Head(chain) = "06_to_07"
        /\ At(nodes, idx).type_key \in DOMAIN StripRelay) =>
           LET item == At(nodes, idx)
               v == PyIndex(nodes, ParseInt(item.attrs.var))
               ref == At(nodes, v) IN
           IF "name" \in DOMAIN ref.attrs /\ v # idx
           THEN /\ _ftype_var(nodes, idx).err = ""
                /\ At(_ftype_var(nodes, idx).nodes, idx).attrs =
                       ("name_hint" :> ref.attrs.name)
                /\ At(_ftype_var(nodes, idx).nodes, idx).type_key =
                       StripRelay[item.type_key]
                /\ At(_ftype_var(nodes, idx).nodes, v) = [ref EXCEPT !.type_key = ""]
                /\ pc' = "scan"
                /\ At(nodes', v).type_key = ""
                /\ At(nodes', v).attrs = ref.attrs
                /\ "var" \notin DOMAIN At(nodes', idx).attrs
                /\ At(nodes', idx).type_key = StripRelay[item.type_key]
                /\ At(nodes', idx).attrs.name_hint = FormatInt(Len(nodes))
                /\ At(nodes', Len(nodes)) = StringNode(ref.attrs.name)
           ELSE pc' = "error"
      ]_vars

C18_Witness ==
    /\ pc = "scan" /\ Head(chain) = "06_to_07"
    /\ idx >= 1 /\ idx <= Len(InNodes)
    /\ At(InNodes, idx - 1).type_key = "relay.TypeVar"
    /\ At(nodes, idx - 1).type_key = "TypeVar"
    /\ "var" \notin DOMAIN At(nodes, idx - 1).attrs
    /\ At(nodes, ParseInt(At(InNodes, idx - 1).attrs.var)).type_key = ""

(* C19: a node whose tag is the empty tombstone keeps its index and stays  *)
(* exactly as it is in every later step, and the visit of its index        *)
(* applies no rule and appends nothing.                                    *)
C19_TombstoneIsPermanent ==
    [][(pc \in {"call", "scan", "dump"}) =>
          \A i \in 0 .. Len(nodes) - 1 :
              At(nodes, i).type_key = "" =>
                  (/\ Len(nodes') > i
                   /\ At(nodes', i) = At(nodes, i)
                   /\ (pc = "scan" /\ idx = i) => (nodes' = nodes /\ pc' = "scan"))
      ]_vars

C19_Witness ==
    /\ pc = "scan" /\ Head(chain) = "07_to_08"
    /\ idx >= 1
    /\ At(nodes, idx - 1).type_key = ""
    /\ "name" \in DOMAIN At(nodes, idx - 1).attrs

NumPromotions(f) ==
    Cardinality({k \in DOMAIN f : f[k].kind = "_update_from_std_str"})

(* C20: the rule chain of a visit is the one registered for the tag the    *)
(* node has when its index is reached: a successful visit appends exactly  *)
(* one node per promotion rule of that chain, also when the chain renames  *)
(* the node to a tag that has a promotion rule of its own, so the returned *)
(* relay.GlobalVar nodes reference a string node holding their original    *)
(* name_hint.                                                              *)
C20_ChainSelectedOnce ==
    [][/\ (Visiting /\ pc' = "scan") =>
             Len(nodes') = Len(nodes) + NumPromotions(CurrentChain)
       /\ (pc' = "done" /\ StartsWith(InVersion, V06)) =>
             \A i \in 0 .. Len(InNodes) - 1 :
                 At(InNodes, i).type_key = "relay.GlobalVar" =>
                     (/\ At(nodes', i).type_key = "GlobalVar"
                      /\ At(nodes', ParseInt(At(nodes', i).attrs.name_hint)) =
                             StringNode(At(InNodes, i).attrs.name_hint))
      ]_vars

C20_Witness ==
    /\ Returned /\ StartsWith(InVersion, V06)
    /\ \E i \in 0 .. Len(InNodes) - 1 :
          /\ At(InNodes, i).type_key = "relay.GlobalVar"
          /\ At(nodes, i).type_key = "GlobalVar"
          /\ At(nodes, ParseInt(At(nodes, i).attrs.name_hint)) = StringNode("x")

IsPromotion(rule) == rule.kind = "_update_from_std_str"

PromotionKeys(f) == SelectSeq(f, IsPromotion)

PromotableAttrs == {"name", "name_hint", "scope", "value", "attr_key"}

(* the attributes of the table that hold the index of a node at lo or above *)
PromotedRefs(ns, lo) ==
    {jk \in (0 .. Len(ns) - 1) \X PromotableAttrs :
        /\ "attrs" \in DOMAIN At(ns, jk[1])
        /\ jk[2] \in DOMAIN At(ns, jk[1]).attrs
        /\ IsIntString(At(ns, jk[1]).attrs[jk[2]])
        /\ ParseInt(At(ns, jk[1]).attrs[jk[2]]) \in lo .. Len(ns) - 1}

(* C21: a successful visit in the 0.6->0.7 pass appends one node per       *)
(* promotion rule of the chain, in the order of the rules, at consecutive *)
(* indices from the old length on, each holding the promoted value, and   *)
(* the promoted attribute becomes the decimal string of that index (for a *)
(* Buffer: name, then scope); when the pass ends the table has grown by   *)
(* exactly the number of promoted attributes.                             *)
C21_PromotionAppendsOne ==
    [][/\ (Visiting /\ Head(chain) = "06_to_07" /\ pc' = "scan") =>
             LET item == At(nodes, idx)
                 keys == PromotionKeys(CurrentChain) IN
             /\ Len(nodes') = Len(nodes) + Len(keys)
             /\ \A j \in 1 .. Len(keys) :
                   /\ At(nodes', idx).attrs[keys[j].arg] = FormatInt(Len(nodes) + j - 1)
                   /\ At(nodes', Len(nodes) + j - 1).type_key = "runtime.String"
                   /\ keys[j].arg \in DOMAIN item.attrs =>
                         At(nodes', Len(nodes) + j - 1) = StringNode(item.attrs[keys[j].arg])
       /\ (pc = "scan" /\ ~HasNext(nodes, idx) /\ Head(chain) = "06_to_07") =>
             Len(nodes) = startLen + Cardinality(PromotedRefs(nodes, startLen))
      ]_vars

C21_Witness ==
    /\ pc = "scan" /\ Head(chain) = "06_to_07" /\ idx = 1
    /\ At(InNodes, 0).type_key = "Buffer"
    /\ At(nodes, 0).type_key = "tir.Buffer"
    /\ At(nodes, 0).attrs.name = FormatInt(Len(InNodes))
    /\ At(nodes, 0).attrs.scope = FormatInt(Len(InNodes) + 1)
    /\ At(nodes, Len(InNodes)) = StringNode("b")
    /\ At(nodes, Len(InNodes) + 1) = StringNode("s")

(* an upper bound of the visits the pass still has to make from index i   *)
(* on: one per node, and one more per node its rule chain will append     *)
RECURSIVE VisitsDue(_, _, _)
VisitsDue(node_map, ns, i) ==
    IF i >= Len(ns) THEN 0
    ELSE 1 + Len(PromotionKeys(Lookup(node_map, At(ns, i).type_key)))
           + VisitsDue(node_map, ns, i + 1)

(* C22: every pass is one finite scan whatever the encoder returns: each  *)
(* successful visit leaves strictly fewer visits due than before, counting *)
(* the nodes the visit appended, so the scan index reaches the end of the *)
(* table and upgrade_json returns or fails.                               *)
C22_PassTerminates ==
    [][(Visiting /\ pc' = "scan") =>
          VisitsDue(Updater[Head(chain)].node_map, nodes', idx')
              < VisitsDue(Updater[Head(chain)].node_map, nodes, idx)
      ]_vars

(* the index the cross-reference rewrite of node j tombstones, if any *)
Targeted(ns, j) ==
    LET item == At(ns, j) IN
    IF /\ item.type_key \in DOMAIN StripRelay
       /\ "attrs" \in DOMAIN item
       /\ "var" \in DOMAIN item.attrs
       /\ IsIntString(item.attrs.var)
       /\ PyIndexOk(ns, ParseInt(item.attrs.var))
    THEN {PyIndex(ns, ParseInt(item.attrs.var))}
    ELSE {}

(* C23: in every pass, the visit of a node whose tag has no rule in the   *)
(* pass's rule set leaves the table exactly as it was and appends         *)
(* nothing, and every node of such a tag that the visited node's rule     *)
(* does not target for tombstoning is identical after any visit.          *)
C23_UnregisteredUntouched ==
    [][Visiting =>
          \A i \in 0 .. Len(nodes) - 1 :
              (/\ At(nodes, i).type_key \notin DOMAIN Updater[Head(chain)].node_map
               /\ Head(chain) = "06_to_07" => i \notin Targeted(nodes, idx)) =>
                  (/\ At(nodes', i) = At(nodes, i)
                   /\ i = idx => (nodes' = nodes /\ pc' = "scan"))
      ]_vars

C23_Witness ==
    /\ pc = "scan" /\ Head(chain) = "06_to_07"
    /\ idx >= 1 /\ idx <= Len(InNodes)
    /\ At(nodes, idx - 1).type_key = "IntImm"
    /\ At(nodes, idx - 1) = At(InNodes, idx - 1)
    /\ Len(nodes) > Len(InNodes)

(* node b is node a with the key filled with "0" when a's attributes lack it *)
DefaultFilled(a, b, key) ==
    /\ DOMAIN b = DOMAIN a
    /\ \A f \in DOMAIN a \ {"attrs"} : b[f] = a[f]
    /\ DOMAIN b.attrs = DOMAIN a.attrs \cup {key}
    /\ \A k \in DOMAIN a.attrs : b.attrs[k] = a.attrs[k]
    /\ key \notin DOMAIN a.attrs => b.attrs[key] = "0"

(* C24: the visit of a node with a registered tag in the 0.8->0.9 pass,   *)
(* and of an IRModule node in the 0.7->0.8 pass, succeeds and changes the *)
(* table only in this: the node's attributes have virtual_device_ (resp.  *)
(* attrs), with the value they had, or "0" when the key was missing.      *)
C24_DefaultFillOnlyMissing ==
    [][(/\ Visiting /\ "attrs" \in DOMAIN At(nodes, idx)
        /\ \/ Head(chain) = "08_to_09" /\ At(nodes, idx).type_key \in DOMAIN node_map_08_to_09
           \/ Head(chain) = "07_to_08" /\ At(nodes, idx).type_key = "IRModule") =>
           (/\ pc' = "scan"
            /\ Len(nodes') = Len(nodes)
            /\ \A j \in 0 .. Len(nodes) - 1 : j # idx => At(nodes', j) = At(nodes, j)
            /\ DefaultFilled(At(nodes, idx), At(nodes', idx),
                             IF Head(chain) = "08_to_09" THEN "virtual_device_" ELSE "attrs"))
      ]_vars

C24_Witness ==
    /\ pc = "scan" /\ Head(chain) = "08_to_09" /\ idx = 2
    /\ At(nodes, 0).type_key = "GlobalVar"
    /\ At(nodes, 0).attrs.virtual_device_ = "5"
    /\ At(nodes, 1).type_key = "GlobalVar"
    /\ "virtual_device_" \notin DOMAIN At(InNodes, 1).attrs
    /\ At(nodes, 1).attrs.virtual_device_ = "0"

(* C25: in the envelope returned for a 0.6 input, every node that was a   *)
(* relay.Module is an IRModule whose attributes have attrs = "0", and     *)
(* every node that was a relay.GlobalVar is a GlobalVar whose attributes  *)
(* have virtual_device_ = "0".                                            *)
C25_LaterPassesSeeNewTags ==
    (Returned /\ StartsWith(InVersion, V06)) =>
        \A i \in 0 .. Len(InNodes) - 1 :
            /\ At(InNodes, i).type_key = "relay.Module" =>
                  /\ At(nodes, i).type_key = "IRModule"
                  /\ "attrs" \in DOMAIN At(nodes, i).attrs
                  /\ At(nodes, i).attrs.attrs = "0"
            /\ At(InNodes, i).type_key = "relay.GlobalVar" =>
                  /\ At(nodes, i).type_key = "GlobalVar"
                  /\ "virtual_device_" \in DOMAIN At(nodes, i).attrs
                  /\ At(nodes, i).attrs.virtual_device_ = "0"

C25_Witness ==
    /\ Returned /\ StartsWith(InVersion, V06)
    /\ \E i, j \in 0 .. Len(InNodes) - 1 :
          /\ At(InNodes, i).type_key = "relay.Module"
          /\ At(nodes, i) = [type_key |-> "IRModule", attrs |-> ("attrs" :> "0")]
          /\ At(InNodes, j).type_key = "relay.GlobalVar"
          /\ At(nodes, j).attrs.virtual_device_ = "0"

(* C26: in the envelope returned for a 0.6 input no node has a global_key *)
(* field, and every node that had one in the input has its value in       *)
(* repr_str.                                                              *)
C26_NoGlobalKeyAfterMigration ==
    (Returned /\ StartsWith(InVersion, V06)) =>
        /\ \A i \in 0 .. Len(nodes) - 1 : "global_key" \notin DOMAIN At(nodes, i)
        /\ \A i \in 0 .. Len(InNodes) - 1 :
              "global_key" \in DOMAIN At(InNodes, i) =>
                  /\ "repr_str" \in DOMAIN At(nodes, i)
                  /\ At(nodes, i).repr_str = At(InNodes, i).global_key

(* the attributes the rule chain of the node's tag promotes and the node  *)
(* neither has nor gets from the cross-reference rewrite                  *)
MissingPromoted(item) ==
    IF item.type_key \notin DOMAIN node_map_06_to_07 THEN {}
    ELSE {k \in PromotedKeys(item.type_key) :
             /\ "attrs" \notin DOMAIN item \/ k \notin DOMAIN item.attrs
             /\ item.type_key \notin DOMAIN StripRelay}

(* the node is a cross reference without var, or to a node without name *)
BrokenReference(ns, i) ==
    LET item == At(ns, i) IN
    /\ item.type_key \in DOMAIN StripRelay
    /\ \/ "attrs" \notin DOMAIN item
       \/ "var" \notin DOMAIN item.attrs
       \/ \E v \in Targeted(ns, i) :
             "attrs" \notin DOMAIN At(ns, v) \/ "name" \notin DOMAIN At(ns, v).attrs

C28_VersionAssertionHolds ==
    [][(pc = "call") =>
          (/\ StartsWith(version, Updater[Head(chain)].from_ver)
           /\ pc' = "scan"
           /\ err' = <<>>)
      ]_vars

C28_Witness ==
    /\ pc = "scan" /\ idx = 0
    /\ InVersion = V061
    /\ Head(chain) = "08_to_09"
    /\ version = V08
    /\ Completed(log) = <<"06_to_07", "07_to_08">>

(* C29: _initialize_module_attributes raises an AssertionError on every   *)
(* node whose tag is not IRModule, and in every run it is invoked only    *)
(* when the visited node's tag is IRModule, so the assertion never fails. *)
C29_ModuleRuleOnlyOnIRModule ==
    [][Visiting =>
          (/\ \A i \in 0 .. Len(nodes) - 1 :
                 At(nodes, i).type_key # "IRModule" =>
                     _initialize_module_attributes(nodes, i).err = "AssertionError"
           /\ (\E k \in DOMAIN CurrentChain :
                  CurrentChain[k].kind = "_initialize_module_attributes") =>
                 (/\ At(nodes, idx).type_key = "IRModule"
                  /\ err' # <<"AssertionError">>))
      ]_vars

C29_Witness ==
    /\ pc = "scan" /\ Head(chain) = "07_to_08"
    /\ idx >= 1
    /\ At(nodes, idx - 1) = [type_key |-> "IRModule", attrs |-> ("attrs" :> "0")]
    /\ \E i \in 0 .. Len(nodes) - 1 : At(nodes, i).type_key \notin {"IRModule", ""}

(* the number of fixed output channels the rewrite found *)
FoundFixed(d) ==
    IF d.fn = "_densify_conv_depthwise_conv_pattern"
    THEN Cardinality(d.zero \cap d.uniform)
    ELSE Cardinality(d.zero)

(* C30: a call of either densify rewrite ends without an exception; it    *)
(* returns None when no fixed channel is left after one is dropped from   *)
(* an odd number of them, and otherwise excises the even number left.     *)
C30_DensifyExcisesEven ==
    dz.pc \in {"done", "error"} =>
        LET kept == FoundFixed(dz) - (FoundFixed(dz) % 2) IN
        /\ dz.pc = "done"
        /\ kept = 0 => dz.result = "None"
        /\ kept > 0 => (/\ dz.result = "nn.bias_add"
                        /\ Len(dz.unneeded_channels) = kept)

====
